---- MODULE Spec2Model ----
\* FoodLog AI: the segmentation invoker (utils/replicate-seg.js), its mask
\* locator, the estimate-portion operation of the server (server.js), the page
\* (app.js) with its pixel fraction meter, and the portion helper
\* (utils/portion.js).
\*
\* JavaScript strings are sequences of one-character strings, so that
\* startsWith / split / pop act on characters.  Numbers that enter the portion
\* arithmetic are exact decimals (a mantissa and a count of fractional digits):
\* products are exact, and rounding happens only where the code calls toFixed.
\* The rounding error of IEEE doubles is not part of the model.
EXTENDS Integers, Sequences, FiniteSets, Bags, TLC

VARIABLES
  \* ---- mask locator exercised on its own (findMaskUrl)
  mPc, out, maskUrl,
  \* ---- POST /api/segment and runModelVersion
  sPc, env, reqImage, prediction, predictionUrl, tries, polls, seenTerminal,
  segResponses, connected,
  \* ---- POST /api/estimate-portion
  ePc, body, fraction, plateAreaCm2, estimatedVolumeMl, density_g_per_ml,
  rawPortionGrams, densityCalls, estResponses,
  \* ---- the page (app.js)
  fileInput, currentImageDataUrl, currentFoodName, currentMaskUrl,
  currentPixelFraction, statusText, infoText, resultText, handlers, clicks,
  estRequests, identifiedNames, lastSegment, lastSubmitted,
  \* ---- computeMaskPixelFraction exercised on its own, and what the server
  \* ---- does with its result
  mtPc, pixels, measuredFraction,
  \* ---- estimatePortionFromMaskFraction (utils/portion.js)
  hPc, hPixelFraction, hOpts, hResult, hGrams,
  \* ---- the density reply parsed on its own
  dPc, densityReply, densityResult

varsMask == <<mPc, out, maskUrl>>
varsSeg == <<sPc, env, reqImage, prediction, predictionUrl, tries, polls,
             seenTerminal, segResponses, connected>>
varsEst == <<ePc, body, fraction, plateAreaCm2, estimatedVolumeMl,
             density_g_per_ml, rawPortionGrams, densityCalls, estResponses>>
varsPage == <<fileInput, currentImageDataUrl, currentFoodName, currentMaskUrl,
              currentPixelFraction, statusText, infoText, resultText, handlers, clicks,
              estRequests, identifiedNames, lastSegment, lastSubmitted>>
varsMeter == <<mtPc, pixels, measuredFraction>>
varsHelper == <<hPc, hPixelFraction, hOpts, hResult, hGrams>>
varsParser == <<dPc, densityReply, densityResult>>
varsAside == <<varsMeter, varsHelper, varsParser>>
varsFront == <<varsPage, varsAside>>
vars == <<varsMask, varsSeg, varsEst, varsFront>>

\* ------------------------------------------------------------------
\* Bounds of the model
\* ------------------------------------------------------------------
MaxArrLen == 2      \* longest sequence in a generated structure
MaxKeys == 2        \* most keys in a generated mapping
MaxPending == 2     \* most click handlers of the page in flight at once
MaxClicks == 3      \* most button clicks in one run of the page
MaxPixels == 2      \* most pixels in a generated pixel buffer

\* ------------------------------------------------------------------
\* JavaScript values
\* ------------------------------------------------------------------
Undefined == [t |-> "undefined"]
Null == [t |-> "null"]
Bool(b) == [t |-> "bool", b |-> b]
Str(s) == [t |-> "str", s |-> s]
Arr(xs) == [t |-> "arr", xs |-> xs]
\* a mapping: its keys in insertion order and the values beside them
Obj(ks, vs) == [t |-> "obj", ks |-> ks, vs |-> vs]

\* ToBoolean: what `!out` and `if (v)` test
Truthy(v) ==
  CASE v.t = "undefined" -> FALSE
    [] v.t = "null" -> FALSE
    [] v.t = "bool" -> v.b
    [] v.t = "num" -> v.d # <<>>
    [] v.t = "nan" -> FALSE
    [] v.t = "str" -> v.s # <<>>
    [] OTHER -> TRUE

\* out[k] for a string key k
Get(o, k) ==
  IF o.t = "obj" /\ \E i \in 1..Len(o.ks) : o.ks[i] = k
  THEN o.vs[CHOOSE i \in 1..Len(o.ks) : o.ks[i] = k]
  ELSE Undefined

\* Object.keys(out): a mapping's keys in insertion order; a sequence's indices
KeyValues(o) ==
  CASE o.t = "obj" -> o.vs
    [] o.t = "arr" -> o.xs
    [] OTHER -> <<>>

\* ------------------------------------------------------------------
\* Strings
\* ------------------------------------------------------------------
StartsWith(s, p) == Len(s) >= Len(p) /\ SubSeq(s, 1, Len(p)) = p

\* s.split(c)[0]: the text before the first c (all of s when there is none)
SplitFirst(s, c) ==
  IF \E i \in 1..Len(s) : s[i] = c
  THEN LET i == CHOOSE i \in 1..Len(s) : s[i] = c /\ \A j \in 1..(i - 1) : s[j] # c
       IN SubSeq(s, 1, i - 1)
  ELSE s

\* s.split(c).pop(): the text after the last c (all of s when there is none)
SplitLast(s, c) ==
  IF \E i \in 1..Len(s) : s[i] = c
  THEN LET i == CHOOSE i \in 1..Len(s) : s[i] = c /\ \A j \in (i + 1)..Len(s) : s[j] # c
       IN SubSeq(s, i + 1, Len(s))
  ELSE s

cHttp == <<"h","t","t","p">>
cData == <<"d","a","t","a",":">>
ImageExts == { <<"p","n","g">>, <<"j","p","g">>, <<"j","p","e","g">>, <<"w","e","b","p">> }

\* the extension the locator looks at
Ext(s) == SplitLast(SplitFirst(s, "?"), ".")

\* the string test of findMaskUrl, lines 75-78
AcceptsNoScheme(s) == Ext(s) \in ImageExts \/ StartsWith(s, cData)
AcceptsString(s) ==
  /\ (StartsWith(s, cHttp) \/ StartsWith(s, cData))
  /\ (Ext(s) \in ImageExts \/ StartsWith(s, cData))

PriorityKeysOverlayFirst == <<"overlay", "mask", "masks", "segmentation", "segmented_image">>
PriorityKeys == <<"mask", "masks", "segmentation", "segmented_image", "overlay">>

\* ------------------------------------------------------------------
\* findMaskUrl
\* ------------------------------------------------------------------
\* A `const v = e` of the code is written { ... v ... : v \in {e} }: e is
\* evaluated once and the one element of the set is the value of the rest.
RECURSIVE findMaskUrl(_)
RECURSIVE FirstMask(_)
RECURSIVE FirstMaskAtKeys(_, _)

\* `for (const o of xs) { const v = findMaskUrl(o); if (v) return v; }`
FirstMask(xs) ==
  IF xs = <<>> THEN Null
  ELSE CHOOSE r \in { IF Truthy(v) THEN v ELSE FirstMask(Tail(xs)) :
                      v \in {findMaskUrl(Head(xs))} } : TRUE

\* `for (const k of ks) { if (o[k]) { const v = findMaskUrl(o[k]); if (v) return v; } }`
RECURSIVE FirstMaskAtKeysShallow(_, _)
FirstMaskAtKeysShallow(o, ks) ==
  IF ks = <<>> THEN Null
  ELSE IF Get(o, Head(ks)).t = "str" /\ AcceptsString(Get(o, Head(ks)).s)
  THEN Get(o, Head(ks))
  ELSE FirstMaskAtKeysShallow(o, Tail(ks))
FirstMaskAtKeys(o, ks) ==
  IF ks = <<>> THEN Null
  ELSE CHOOSE r \in { IF Truthy(v) THEN v ELSE FirstMaskAtKeys(o, Tail(ks)) :
                      v \in { IF Truthy(Get(o, Head(ks)))
                              THEN findMaskUrl(Get(o, Head(ks))) ELSE Null } } : TRUE

\* what follows the string test: the sequence loop, then the mapping loops
\* (which a sequence, being an object, goes through as well)
FindInComposite(o) ==
  CHOOSE r \in
    { IF Truthy(inArr) THEN inArr
      ELSE IF o.t \in {"arr", "obj"}
      THEN CHOOSE q \in { IF Truthy(common) THEN common ELSE FirstMask(KeyValues(o)) :
                         common \in {FirstMaskAtKeys(o, PriorityKeys)} } : TRUE
      ELSE Null :
      inArr \in { IF o.t = "arr" THEN FirstMask(o.xs) ELSE Null } } : TRUE

findMaskUrl(o) ==
  IF ~Truthy(o) THEN Null
  ELSE IF o.t = "str" /\ AcceptsString(o.s) THEN o
  ELSE FindInComposite(o)

\* ------------------------------------------------------------------
\* Inputs of the mask locator
\* ------------------------------------------------------------------
sHttpPng == <<"h","t","t","p",":","/","/","h","/","a",".","p","n","g">>
sHttpsJpegQ == <<"h","t","t","p","s",":","/","/","h","/","b",".","j","p","e","g","?","v","=","1",".","t","x","t">>
sHttpWebp == <<"h","t","t","p",":","/","/","h","/","c",".","w","e","b","p">>
sHttpJpg == <<"h","t","t","p",":","/","/","h","/","d",".","j","p","g">>
sData == <<"d","a","t","a",":","i","m","a","g","e","/","p","n","g",";","b","a","s","e","6","4",",","A","A">>
sBarePng == <<"a",".","p","n","g">>
sHttpTxt == <<"h","t","t","p",":","/","/","h","/","a",".","t","x","t">>
sHttpTxtQPng == <<"h","t","t","p",":","/","/","h","/","a",".","t","x","t","?","f","=","b",".","p","n","g">>
sHttpNoExt == <<"h","t","t","p",":","/","/","h","/","p","n","g">>
sHttpDotDir == <<"h","t","t","p",":","/","/","h",".","p","n","g","/","a">>
sHttpUpper == <<"h","t","t","p",":","/","/","h","/","a",".","P","N","G">>
sFtpPng == <<"f","t","p",":","/","/","h","/","a",".","p","n","g">>
sExtOnly == <<"x","/","b",".","j","p","g">>

sBareBPng == <<"b",".","p","n","g">>
sHttpBPng == <<"h","t","t","p",":","/","/","h","/","b",".","p","n","g">>

AllStrings ==
  { sHttpPng, sHttpsJpegQ, sHttpWebp, sHttpJpg, sData, sBarePng, sHttpTxt,
    sHttpTxtQPng, sHttpNoExt, sHttpDotDir, sHttpUpper, sFtpPng, sExtOnly, <<>> }

Scalars ==
  { Undefined, Null, Bool(TRUE), Bool(FALSE),
    [t |-> "num", neg |-> FALSE, d |-> <<>>, e |-> 0],
    [t |-> "num", neg |-> FALSE, d |-> <<7>>, e |-> 0] }

\* leaves of the nested structures: two acceptable strings, two that are not
NestLeaves == { Str(sHttpPng), Str(sData), Str(sBarePng), Str(sHttpTxt), Null }
NestKeys == { "mask", "overlay", "url" }

SeqsUpTo(S, n) == UNION { [1..k -> S] : k \in 0..n }
IsInjective(f) == \A i, j \in DOMAIN f : f[i] = f[j] => i = j
KeySeqs(n) == { ks \in SeqsUpTo(NestKeys, n) : IsInjective(ks) }

FlatArrs == { Arr(xs) : xs \in SeqsUpTo(NestLeaves, MaxArrLen) }
FlatObjs ==
  UNION { { Obj(ks, vs) : vs \in [1..Len(ks) -> NestLeaves] } : ks \in KeySeqs(MaxKeys) }
Flat == FlatArrs \cup FlatObjs

\* one more level: a flat structure under a key, a sequence beside a leaf
Nested ==
  { Obj(<<k>>, <<x>>) : k \in {"mask", "url"}, x \in Flat }
  \cup { Arr(<<a, x>>) : a \in {Str(sBarePng), Str(sData)}, x \in FlatArrs }
  \cup { Obj(<<"url", "mask">>, <<a, x>>) : a \in {Str(sHttpTxt), Str(sHttpPng)}, x \in FlatArrs }

\* a mask under segmentation beside an overlay, with and without a scheme,
\* in both insertion orders
MaskBesideOverlay(a, b) ==
  Obj(<<"segmentation", "overlay">>, <<Obj(<<"mask">>, <<Str(a)>>), Str(b)>>)
Examples ==
  { MaskBesideOverlay(sBarePng, sBareBPng), MaskBesideOverlay(sHttpPng, sHttpBPng),
    Obj(<<"overlay", "segmentation">>,
        <<Str(sHttpBPng), Obj(<<"mask">>, <<Str(sHttpPng)>>)>>) }

Structures ==
  { Str(s) : s \in AllStrings } \cup Scalars \cup Flat \cup Nested \cup Examples

\* every string that occurs in a structure
RECURSIVE StringsIn(_)
RECURSIVE StringsInSeq(_)
StringsInSeq(xs) == IF xs = <<>> THEN {} ELSE StringsIn(Head(xs)) \cup StringsInSeq(Tail(xs))
StringsIn(o) ==
  CASE o.t = "str" -> {o.s}
    [] o.t = "arr" -> StringsInSeq(o.xs)
    [] o.t = "obj" -> StringsInSeq(o.vs)
    [] OTHER -> {}

\* ------------------------------------------------------------------
\* Exact decimal numbers.  A number is (+/-) m / 10^e: m is held in d as limbs
\* of four decimal digits, least significant limb first and without leading
\* zero limbs; e counts the digits after the decimal point; neg is the sign.
\* ------------------------------------------------------------------
RECURSIVE Strip(_)
Strip(ls) ==
  IF ls = <<>> THEN <<>>
  ELSE IF ls[Len(ls)] = 0 THEN Strip(SubSeq(ls, 1, Len(ls) - 1))
  ELSE ls

RECURSIVE Limbs(_)
Limbs(n) == IF n = 0 THEN <<>> ELSE <<n % 10000>> \o Limbs(n \div 10000)

RECURSIVE ZeroLimbs(_)
ZeroLimbs(k) == IF k <= 0 THEN <<>> ELSE <<0>> \o ZeroLimbs(k - 1)

RECURSIVE Pow10(_)
Pow10(k) == IF k <= 0 THEN 1 ELSE 10 * Pow10(k - 1)

RECURSIVE AddLimbs(_, _, _)
AddLimbs(a, b, c) ==
  IF a = <<>> /\ b = <<>> THEN Limbs(c)
  ELSE LET x == IF a = <<>> THEN 0 ELSE Head(a)
           y == IF b = <<>> THEN 0 ELSE Head(b)
           s == x + y + c
       IN <<s % 10000>> \o AddLimbs(IF a = <<>> THEN <<>> ELSE Tail(a),
                                    IF b = <<>> THEN <<>> ELSE Tail(b), s \div 10000)

\* a * k + c for a small k
RECURSIVE MulSmall(_, _, _)
MulSmall(a, k, c) ==
  IF a = <<>> THEN Limbs(c)
  ELSE LET s == Head(a) * k + c
       IN <<s % 10000>> \o MulSmall(Tail(a), k, s \div 10000)

RECURSIVE MulLimbs(_, _)
MulLimbs(a, b) ==
  IF a = <<>> \/ b = <<>> THEN <<>>
  ELSE AddLimbs(MulSmall(a, Head(b), 0), <<0>> \o MulLimbs(a, Tail(b)), 0)

\* <<quotient, remainder>> of a by a small k
RECURSIVE DivSmall(_, _)
DivSmall(a, k) ==
  IF a = <<>> THEN << <<>>, 0 >>
  ELSE LET r == DivSmall(Tail(a), k)
           cur == r[2] * 10000 + Head(a)
       IN << <<cur \div k>> \o r[1], cur % k >>

\* -1, 0 or 1 as a < b, a = b, a > b (both without leading zero limbs)
RECURSIVE CmpLimbs(_, _)
CmpLimbs(a, b) ==
  IF Len(a) # Len(b) THEN (IF Len(a) < Len(b) THEN -1 ELSE 1)
  ELSE IF a = <<>> THEN 0
  ELSE IF a[Len(a)] # b[Len(b)] THEN (IF a[Len(a)] < b[Len(b)] THEN -1 ELSE 1)
  ELSE CmpLimbs(SubSeq(a, 1, Len(a) - 1), SubSeq(b, 1, Len(b) - 1))

\* a * 10^k and floor(a / 10^k)
ShiftUp(a, k) ==
  IF a = <<>> THEN <<>>
  ELSE Strip(ZeroLimbs(k \div 4) \o MulSmall(a, Pow10(k % 4), 0))
ShiftDown(a, k) ==
  IF Len(a) <= k \div 4 THEN <<>>
  ELSE Strip(DivSmall(SubSeq(a, (k \div 4) + 1, Len(a)), Pow10(k % 4))[1])

Dec(ls, e) == [t |-> "num", neg |-> FALSE, d |-> Strip(ls), e |-> e]
Neg(x) == [x EXCEPT !.neg = (x.d # <<>>)]
\* the number n / 10^e, for a small n
DecOf(n, e) == Dec(Limbs(n), e)
NaN == [t |-> "nan"]

\* typeof v === 'number'
IsNumber(v) == v.t \in {"num", "nan"}

\* comparison of the magnitudes of two numbers
CmpAbs(x, y) == CmpLimbs(ShiftUp(x.d, y.e), ShiftUp(y.d, x.e))
\* x > y on numbers; every comparison with NaN is false
Greater(x, y) ==
  /\ x.t = "num" /\ y.t = "num"
  /\ CASE ~x.neg /\ ~y.neg -> CmpAbs(x, y) = 1
       [] ~x.neg /\ y.neg -> TRUE
       [] x.neg /\ ~y.neg -> FALSE
       [] OTHER -> CmpAbs(x, y) = -1
\* x <= y
LessEq(x, y) ==
  /\ x.t = "num" /\ y.t = "num"
  /\ CASE ~x.neg /\ ~y.neg -> CmpAbs(x, y) # 1
       [] ~x.neg /\ y.neg -> FALSE
       [] x.neg /\ ~y.neg -> TRUE
       [] OTHER -> CmpAbs(x, y) # -1
\* the same numeric value, whatever the count of fractional digits
SameNumber(x, y) ==
  x.t = "num" /\ y.t = "num" /\ x.neg = y.neg /\ CmpAbs(x, y) = 0

\* the product of two non-negative numbers, exactly
Times(x, y) == Dec(MulLimbs(x.d, y.d), x.e + y.e)

\* Number(x.toFixed(n)) for x >= 0: the nearest multiple of 10^-n, the larger
\* one when two are equally near
ToFixed(x, n) ==
  IF x.e <= n THEN x
  ELSE Dec(ShiftDown(AddLimbs(x.d, ShiftUp(<<5>>, x.e - n - 1), 0), x.e - n), n)

\* Math.PI, 3.141592653589793
MathPI == Dec(<<9793, 5358, 5926, 3141>>, 15)

\* ------------------------------------------------------------------
\* The density reply: out.match(/[\d]+(?:\.\d+)?/) and parseFloat
\* ------------------------------------------------------------------
DigitChars == <<"0", "1", "2", "3", "4", "5", "6", "7", "8", "9">>
IsDigit(c) == \E i \in 1..10 : DigitChars[i] = c
DigitVal(c) == (CHOOSE i \in 1..10 : DigitChars[i] = c) - 1

\* the last index of the run of digits that starts at i
RunEnd(s, i) ==
  CHOOSE j \in i..Len(s) :
    /\ \A k \in i..j : IsDigit(s[k])
    /\ (j = Len(s) \/ ~IsDigit(s[j + 1]))

\* whether the pattern matches anywhere, and the first match: <<from, to, dot>>
\* where dot is the index of the decimal point inside the match, or 0
HasMatch(s) == \E i \in 1..Len(s) : IsDigit(s[i])
FirstMatch(s) ==
  LET from == CHOOSE i \in 1..Len(s) : IsDigit(s[i]) /\ \A j \in 1..(i - 1) : ~IsDigit(s[j])
      intEnd == RunEnd(s, from)
      frac == intEnd + 2 <= Len(s) /\ s[intEnd + 1] = "." /\ IsDigit(s[intEnd + 2])
  IN IF frac THEN <<from, RunEnd(s, intEnd + 2), intEnd + 1>> ELSE <<from, intEnd, 0>>

\* the limbs of the number written by a sequence of digit characters
RECURSIVE DigitLimbs(_, _)
DigitLimbs(cs, acc) ==
  IF cs = <<>> THEN acc ELSE DigitLimbs(Tail(cs), MulSmall(acc, 10, DigitVal(Head(cs))))

\* parseFloat of a text of the form digits or digits.digits
parseFloat(s, dot) ==
  IF dot = 0 THEN Dec(DigitLimbs(s, <<>>), 0)
  ELSE Dec(DigitLimbs(SubSeq(s, 1, dot - 1) \o SubSeq(s, dot + 1, Len(s)), <<>>), Len(s) - dot)

\* lines 263-264: `match ? parseFloat(match[0]) : 1.0`
ParseDensityIntegerOnly(text) ==
  IF HasMatch(text)
  THEN LET m == FirstMatch(text)
       IN parseFloat(SubSeq(text, m[1], RunEnd(text, m[1])), 0)
  ELSE DecOf(1, 0)
ParseDensity(text) ==
  IF HasMatch(text)
  THEN LET m == FirstMatch(text)
       IN parseFloat(SubSeq(text, m[1], m[2]), IF m[3] = 0 THEN 0 ELSE m[3] - m[1] + 1)
  ELSE DecOf(1, 0)

\* what a call returns or throws
Return(v) == [threw |-> FALSE, v |-> v]
Throw(e) == [threw |-> TRUE, err |-> e]

\* The outcome of openai.chat.completions.create: the call rejects, or it
\* resolves with a completion whose first message content is a string or absent.
Rejected == [k |-> "rejected"]
Completion(content) == [k |-> "resolved", content |-> content]

\* getDensityEstimateFromOpenAI, from the outcome of the service call on
getDensityEstimateFromOpenAI(outcome) ==
  IF outcome.k = "rejected" THEN Throw("density service call failed")
  ELSE LET text == IF Truthy(outcome.content) THEN outcome.content.s ELSE <<>>
       IN Return(ParseDensity(text))

\* ------------------------------------------------------------------
\* Idle values of the parts
\* ------------------------------------------------------------------
MaskIdle == mPc = "idle" /\ out = Undefined /\ maskUrl = Null
SegIdle ==
  /\ sPc = "idle" /\ reqImage = "none"
  /\ env = [REPLICATE_API_TOKEN |-> TRUE, REPLICATE_MODEL_VERSION |-> TRUE]
  /\ prediction = Undefined /\ predictionUrl = Undefined
  /\ tries = 0 /\ polls = 0 /\ seenTerminal = FALSE /\ segResponses = <<>>
  /\ connected = TRUE
EstIdle ==
  /\ ePc = "idle" /\ body = Undefined /\ fraction = Null
  /\ plateAreaCm2 = Null /\ estimatedVolumeMl = Null
  /\ density_g_per_ml = Null /\ rawPortionGrams = Null
  /\ densityCalls = 0 /\ estResponses = <<>>

\* the page as loaded (app.js lines 11-14, no handler running); nothing
\* measured, no reply parsed, the helper not called
Text(text, arg) == [text |-> text, arg |-> arg]
FrontIdle ==
  /\ fileInput = "none"
  /\ currentImageDataUrl = Null /\ currentFoodName = Null
  /\ currentMaskUrl = Null /\ currentPixelFraction = Null
  /\ statusText = Text("", Undefined) /\ infoText = Text("", Undefined)
  /\ resultText = Text("", Undefined)
  /\ handlers = EmptyBag
  /\ clicks = 0 /\ estRequests = <<>>
  /\ identifiedNames = {} /\ lastSegment = "none" /\ lastSubmitted = "none"
  /\ mtPc = "idle" /\ pixels = <<>> /\ measuredFraction = Null
  /\ hPc = "idle" /\ hPixelFraction = Undefined /\ hOpts = Undefined
  /\ hResult = Null /\ hGrams = Null
  /\ dPc = "idle" /\ densityReply = Undefined /\ densityResult = Null
\* every part idle
Init == MaskIdle /\ SegIdle /\ EstIdle /\ FrontIdle

\* ------------------------------------------------------------------
\* The mask locator applied to one structure
\* ------------------------------------------------------------------
MaskInit == MaskIdle /\ SegIdle /\ EstIdle /\ FrontIdle

\* findMaskUrl is called on a structure
Call(o) ==
  /\ mPc = "idle"
  /\ out' = o
  /\ mPc' = "ready"
  /\ UNCHANGED <<maskUrl, varsSeg, varsEst, varsFront>>

\* `const maskUrl = findMaskUrl(output);`
Locate ==
  /\ mPc = "ready"
  /\ maskUrl' = findMaskUrl(out)
  /\ mPc' = "done"
  /\ UNCHANGED <<out, varsSeg, varsEst, varsFront>>

MaskNext == (\E o \in Structures : Call(o)) \/ Locate
MaskSpec == MaskInit /\ [][MaskNext]_vars
\* the call runs once it is made
MaskFairSpec == MaskSpec /\ WF_vars(Locate)

\* ------------------------------------------------------------------
\* POST /api/estimate-portion
\* ------------------------------------------------------------------
MaxReplyLen == 3    \* longest reply of the density service
FractionMargin == 2 \* tenths below 0 and above 1 among the pixel fractions sent

ReplyChars == {"0", "9", ".", "x"}
Replies == SeqsUpTo(ReplyChars, MaxReplyLen)
DensityOutcomes ==
  {Rejected, Completion(Undefined)} \cup { Completion(Str(r)) : r \in Replies }

Tenths(m) == IF m < 0 THEN Neg(DecOf(0 - m, 1)) ELSE DecOf(m, 1)
FractionNumbers ==
  { Tenths(m) : m \in (0 - FractionMargin)..(10 + FractionMargin) }
  \cup { DecOf(1, 2), DecOf(25, 2), DecOf(999, 3), DecOf(1001, 3), DecOf(1, 0) }
PixelFractions == {Undefined, Null, NaN, Str(<<"0", ".", "5">>)} \cup FractionNumbers

sRice == <<"r","i","c","e">>
Bodies ==
  [ imageBase64 : {Undefined, Str(<<>>), Str(sData)},
    maskUrl : {Undefined, Str(<<>>), Str(sHttpPng)},
    foodName : {Undefined, Str(<<>>), Str(sRice)},
    pixelFraction : PixelFractions ]

\* line 322
MissingFields(b) ==
  ~Truthy(b.imageBase64) \/ ~Truthy(b.maskUrl) \/ ~Truthy(b.foodName)

\* line 328
FractionOfClamps(pixelFraction) ==
  IF pixelFraction.t = "num" /\ Greater(pixelFraction, DecOf(0, 0))
  THEN (IF LessEq(pixelFraction, DecOf(1, 0)) THEN pixelFraction ELSE DecOf(1, 0))
  ELSE Null
FractionOf(pixelFraction) ==
  IF IsNumber(pixelFraction) /\ Greater(pixelFraction, DecOf(0, 0))
     /\ LessEq(pixelFraction, DecOf(1, 0))
  THEN pixelFraction ELSE Null

\* lines 339-344
defaultPlateDiameterCm == DecOf(25, 0)
defaultHeightCm == DecOf(25, 1)
PlateArea ==
  LET r == Times(defaultPlateDiameterCm, DecOf(5, 1)) IN Times(MathPI, Times(r, r))
VolumeNoHeight(f) == Times(f, PlateArea)
Volume(f) == Times(Times(f, PlateArea), defaultHeightCm)

\* line 349
RawGramsFromRounded(volume, density) == Times(ToFixed(volume, 2), ToFixed(density, 2))
RawGrams(volume, density) == Times(volume, density)

ErrorJson(msg) == [error |-> msg]
Response(status, json) == [status |-> status, json |-> json]

\* lines 352-363
ResultJsonNoDensity(foodName, f, area, volume, density, grams) ==
  [ foodName |-> foodName,
    pixelFraction |-> f,
    plateAssumptions |->
      [ plateDiameterCm |-> defaultPlateDiameterCm,
        assumedHeightCm |-> defaultHeightCm,
        plateAreaCm2 |-> ToFixed(area, 2) ],
    estimatedVolumeMl |-> ToFixed(volume, 2),
    portionEstimate_g |-> ToFixed(grams, 1) ]
ResultJson(foodName, f, area, volume, density, grams) ==
  [ foodName |-> foodName,
    pixelFraction |-> f,
    plateAssumptions |->
      [ plateDiameterCm |-> defaultPlateDiameterCm,
        assumedHeightCm |-> defaultHeightCm,
        plateAreaCm2 |-> ToFixed(area, 2) ],
    estimatedVolumeMl |-> ToFixed(volume, 2),
    density_g_per_ml |-> ToFixed(density, 2),
    portionEstimate_g |-> ToFixed(grams, 1) ]

\* The handler from the request's arrival to its first await (lines 320-347):
\* it answers 400, or computes the volume and calls the density service.
EstimatePortion(b) ==
  /\ ePc = "idle"
  /\ body' = b
  /\ \/ /\ MissingFields(b)
        /\ estResponses' = Append(estResponses,
             Response(400, ErrorJson("Missing fields (imageBase64, maskUrl, foodName)")))
        /\ ePc' = "done"
        /\ UNCHANGED <<fraction, plateAreaCm2, estimatedVolumeMl, densityCalls>>
     \/ /\ ~MissingFields(b)
        /\ ~Truthy(FractionOf(b.pixelFraction))
        /\ fraction' = FractionOf(b.pixelFraction)
        /\ estResponses' = Append(estResponses,
             Response(400, ErrorJson("Missing pixelFraction. Frontend should compute mask pixel fraction and send it.")))
        /\ ePc' = "done"
        /\ UNCHANGED <<plateAreaCm2, estimatedVolumeMl, densityCalls>>
     \/ /\ ~MissingFields(b)
        /\ Truthy(FractionOf(b.pixelFraction))
        /\ fraction' = FractionOf(b.pixelFraction)
        /\ plateAreaCm2' = PlateArea
        /\ estimatedVolumeMl' = Volume(FractionOf(b.pixelFraction))
        /\ densityCalls' = densityCalls + 1
        /\ ePc' = "density"
        /\ UNCHANGED estResponses
  /\ UNCHANGED <<density_g_per_ml, rawPortionGrams, varsMask, varsSeg, varsFront>>

\* The rest of the handler, once the density call has settled (lines 347-368):
\* the result is sent, or the catch block answers 500.
DensitySettled(outcome) ==
  /\ ePc = "density"
  /\ LET r == getDensityEstimateFromOpenAI(outcome)
     IN \/ /\ r.threw
           /\ estResponses' = Append(estResponses, Response(500, ErrorJson(r.err)))
           /\ UNCHANGED <<density_g_per_ml, rawPortionGrams>>
        \/ /\ ~r.threw
           /\ density_g_per_ml' = r.v
           /\ rawPortionGrams' = RawGrams(estimatedVolumeMl, r.v)
           /\ estResponses' = Append(estResponses,
                Response(200, ResultJson(body.foodName, fraction, plateAreaCm2,
                                         estimatedVolumeMl, r.v,
                                         RawGrams(estimatedVolumeMl, r.v))))
  /\ ePc' = "done"
  /\ UNCHANGED <<body, fraction, plateAreaCm2, estimatedVolumeMl, densityCalls,
                 varsMask, varsSeg, varsFront>>

EstInit == MaskIdle /\ SegIdle /\ EstIdle /\ FrontIdle
EstNext ==
  \/ \E b \in Bodies : EstimatePortion(b)
  \/ \E o \in DensityOutcomes : DensitySettled(o)
EstSpec == EstInit /\ [][EstNext]_vars

\* ------------------------------------------------------------------
\* runModelVersion and POST /api/segment
\* ------------------------------------------------------------------
MaxTries == 60      \* `tries < 60`

sStarting == <<"s","t","a","r","t","i","n","g">>
sProcessing == <<"p","r","o","c","e","s","s","i","n","g">>
sSucceeded == <<"s","u","c","c","e","e","d","e","d">>
sFailed == <<"f","a","i","l","e","d">>
sCanceled == <<"c","a","n","c","e","l","e","d">>
sPollUrl == <<"h","t","t","p","s",":","/","/","r","/","p","1">>

\* What the service may answer.  A prediction carries its status, the input it
\* was given, its output and, when it is to be polled, urls.get.
Statuses == { Str(sStarting), Str(sProcessing), Str(sSucceeded), Str(sFailed),
              Str(sCanceled), Undefined }
Outputs ==
  { Undefined, Str(sHttpPng), Arr(<<Str(sHttpTxt)>>),
    Arr(<<Str(sBarePng), Str(sData)>>),
    Obj(<<"url", "mask">>, <<Str(sHttpJpg), Str(sHttpWebp)>>) }
Created(status, output, pollable) ==
  IF pollable
  THEN Obj(<<"status", "input", "output", "urls">>,
           <<status, Obj(<<"image">>, <<Str(sData)>>), output,
             Obj(<<"get">>, <<Str(sPollUrl)>>)>>)
  ELSE Obj(<<"status", "input", "output">>,
           <<status, Obj(<<"image">>, <<Str(sData)>>), output>>)
\* the request rejects (a transport failure or an HTTP error status), or it
\* resolves with a body: a prediction, or a JSON null
CreateOutcomes ==
  { [k |-> "rejected"], [k |-> "resolved", data |-> Null] }
  \cup { [k |-> "resolved", data |-> Created(s, o, u)] :
           s \in Statuses, o \in Outputs, u \in BOOLEAN }
PollOutcomes ==
  { [k |-> "rejected"], [k |-> "resolved", data |-> Null] }
  \cup { [k |-> "resolved", data |-> Created(s, o, TRUE)] : s \in Statuses, o \in Outputs }

Error(msg, payload) == [msg |-> msg, payload |-> payload]

\* reading a property of null or undefined throws
CanRead(p) == p.t \notin {"null", "undefined"}

\* line 45: resp.data && resp.data.urls && resp.data.urls.get
PollLocation(data) ==
  IF ~Truthy(data) THEN data
  ELSE IF ~Truthy(Get(data, "urls")) THEN Get(data, "urls")
  ELSE Get(Get(data, "urls"), "get")

IsPending(status) == status = Str(sStarting) \/ status = Str(sProcessing)

\* line 51, the condition of the poll loop
LoopCondCapOff(p, n) == IsPending(Get(p, "status")) /\ n <= MaxTries
LoopCond(p, n) == IsPending(Get(p, "status")) /\ n < MaxTries

\* lines 62-109: what runModelVersion returns or throws once polling is over
ConcludeIgnoresFailed(p) ==
  IF ~CanRead(p) THEN Throw(Error("TypeError: Cannot read properties of null", p))
  ELSE Return([prediction |-> p, maskUrl |-> findMaskUrl(Get(p, "output"))])
ConcludeDefaultsMask(p) ==
  IF ~CanRead(p) THEN Throw(Error("TypeError: Cannot read properties of null", p))
  ELSE IF Get(p, "status") = Str(sFailed)
  THEN Throw(Error("Replicate prediction failed: ", p))
  ELSE LET m == findMaskUrl(Get(p, "output"))
       IN Return([prediction |-> p, maskUrl |-> IF Truthy(m) THEN m ELSE Str(<<>>)])
ConcludeTopLevelOnly(p) ==
  IF ~CanRead(p) THEN Throw(Error("TypeError: Cannot read properties of null", p))
  ELSE IF Get(p, "status") = Str(sFailed)
  THEN Throw(Error("Replicate prediction failed: ", p))
  ELSE LET o == Get(p, "output")
       IN Return([prediction |-> p,
                  maskUrl |-> IF o.t = "str" /\ AcceptsString(o.s) THEN o ELSE Null])
Conclude(p) ==
  IF ~CanRead(p) THEN Throw(Error("TypeError: Cannot read properties of null", p))
  ELSE IF Get(p, "status") = Str(sFailed)
  THEN Throw(Error("Replicate prediction failed: ", p))
  ELSE Return([prediction |-> p, maskUrl |-> findMaskUrl(Get(p, "output"))])

\* lines 299-305 of the route: the answer to what runModelVersion did
SegmentAnswer(r) ==
  IF r.threw THEN Response(500, ErrorJson(r.err))
  ELSE Response(200, [segResult |-> r.v])

\* The code from a settled request up to the next await: the loop goes round
\* once more (sleep, then poll), or runModelVersion ends and the route answers.
Proceed(p, n, url) ==
  IF Truthy(url) /\ ~CanRead(p)
  THEN /\ sPc' = "done"
       /\ segResponses' = Append(segResponses,
            SegmentAnswer(Throw(Error("TypeError: Cannot read properties of null", p))))
  ELSE IF Truthy(url) /\ LoopCond(p, n)
  THEN sPc' = "sleep" /\ UNCHANGED segResponses
  ELSE /\ sPc' = "done"
       /\ segResponses' = Append(segResponses, SegmentAnswer(Conclude(p)))

\* POST /api/segment arrives (lines 287-299, 21-42): no image answers 400, a
\* missing setting makes runModelVersion throw, otherwise the creation request
\* is sent.
Segment(image) ==
  /\ sPc = "idle"
  /\ reqImage' = image
  /\ \/ /\ image = "none"
        /\ segResponses' = Append(segResponses, Response(400, ErrorJson(Error("Missing image", Undefined))))
        /\ sPc' = "done"
     \/ /\ image # "none"
        /\ ~env.REPLICATE_API_TOKEN
        /\ segResponses' = Append(segResponses,
             SegmentAnswer(Throw(Error("Missing REPLICATE_API_TOKEN in environment", Undefined))))
        /\ sPc' = "done"
     \/ /\ image # "none"
        /\ env.REPLICATE_API_TOKEN /\ ~env.REPLICATE_MODEL_VERSION
        /\ segResponses' = Append(segResponses,
             SegmentAnswer(Throw(Error("Missing REPLICATE_MODEL_VERSION in environment", Undefined))))
        /\ sPc' = "done"
     \/ /\ image # "none"
        /\ env.REPLICATE_API_TOKEN /\ env.REPLICATE_MODEL_VERSION
        /\ sPc' = "create"
        /\ UNCHANGED segResponses
  /\ UNCHANGED <<connected, env, prediction, predictionUrl, tries, polls, seenTerminal,
                 varsMask, varsEst, varsFront>>

\* `await axios.post(...)` settles (lines 42-48)
CreateSettled(o) ==
  /\ sPc = "create"
  /\ \/ /\ o.k = "rejected"
        /\ sPc' = "done"
        /\ segResponses' = Append(segResponses,
             SegmentAnswer(Throw(Error("Request failed", Undefined))))
        /\ UNCHANGED <<prediction, predictionUrl, seenTerminal>>
     \/ /\ o.k = "resolved"
        /\ prediction' = o.data
        /\ predictionUrl' = PollLocation(o.data)
        /\ seenTerminal' = ~IsPending(Get(o.data, "status"))
        /\ Proceed(o.data, 0, PollLocation(o.data))
  /\ UNCHANGED <<connected, env, reqImage, tries, polls, varsMask, varsEst, varsFront>>

\* the one-second timer fires and the poll request is sent (lines 52-53)
PollIssued ==
  /\ sPc = "sleep"
  /\ polls' = polls + 1
  /\ sPc' = "poll"
  /\ UNCHANGED <<connected, env, reqImage, prediction, predictionUrl, tries, seenTerminal,
                 segResponses, varsMask, varsEst, varsFront>>

\* `await axios.get(predictionUrl, ...)` settles (lines 53-56)
PollSettled(o) ==
  /\ sPc = "poll"
  /\ \/ /\ o.k = "rejected"
        /\ sPc' = "done"
        /\ segResponses' = Append(segResponses,
             SegmentAnswer(Throw(Error("Request failed", Undefined))))
        /\ UNCHANGED <<prediction, tries, seenTerminal>>
     \/ /\ o.k = "resolved"
        /\ prediction' = o.data
        /\ tries' = tries + 1
        /\ seenTerminal' = (seenTerminal \/ ~IsPending(Get(o.data, "status")))
        /\ Proceed(o.data, tries + 1, predictionUrl)
  /\ UNCHANGED <<connected, env, reqImage, predictionUrl, polls, varsMask, varsEst, varsFront>>

\* The client goes away while its request is being served.  The route registers
\* no listener for it and runModelVersion takes no abort signal: nothing in the
\* handler changes.
ClientDisconnects ==
  /\ sPc \in {"create", "sleep", "poll"}
  /\ connected
  /\ connected' = FALSE
  /\ UNCHANGED <<sPc, env, reqImage, prediction, predictionUrl, tries, polls,
                 seenTerminal, segResponses, varsMask, varsEst, varsFront>>

SegInit ==
  /\ MaskIdle /\ EstIdle /\ FrontIdle
  /\ sPc = "idle" /\ reqImage = "none"
  /\ env \in [REPLICATE_API_TOKEN : BOOLEAN, REPLICATE_MODEL_VERSION : BOOLEAN]
  /\ prediction = Undefined /\ predictionUrl = Undefined
  /\ tries = 0 /\ polls = 0 /\ seenTerminal = FALSE /\ segResponses = <<>>
  /\ connected = TRUE
SegNext ==
  \/ \E image \in {"file", "imageBase64", "none"} : Segment(image)
  \/ \E o \in CreateOutcomes : CreateSettled(o)
  \/ PollIssued
  \/ \E o \in PollOutcomes : PollSettled(o)
  \/ ClientDisconnects
SegSpec == SegInit /\ [][SegNext]_vars
\* every request settles and the timer fires
SegFairSpec ==
  /\ SegSpec
  /\ WF_vars(\E o \in CreateOutcomes : CreateSettled(o))
  /\ WF_vars(PollIssued)
  /\ WF_vars(\E o \in PollOutcomes : PollSettled(o))

\* ------------------------------------------------------------------
\* computeMaskPixelFraction (app.js lines 75-105)
\* ------------------------------------------------------------------
\* the pixel buffer d is a sequence of pixels <<r, g, b, alpha>>
RECURSIVE CountMaskPixels(_)
IsMaskPixelAlphaOnly(px) == px[4] > 10
IsMaskPixel(px) == IF px[4] > 10 THEN TRUE ELSE px[1] + px[2] + px[3] > 10
CountMaskPixels(d) ==
  IF d = <<>> THEN 0
  ELSE (IF IsMaskPixel(Head(d)) THEN 1 ELSE 0) + CountMaskPixels(Tail(d))
\* a / b for small naturals, to twenty decimals; 0 / 0 is NaN
Quotient(a, b) ==
  IF b = 0 THEN NaN ELSE Dec(DivSmall(ShiftUp(Limbs(a), 20), b)[1], 20)
\* what the promise resolves with once the mask image has loaded
computeMaskPixelFraction(d) == Quotient(CountMaskPixels(d), Len(d))

\* ------------------------------------------------------------------
\* The page: file input, the three buttons and their async click handlers
\* ------------------------------------------------------------------
Files == {"A", "B"}
sUnknown == <<"u","n","k","n","o","w","n">>
sSoup == <<"s","o","u","p">>
\* what belongs to a file: its data URL, the mask the service returns for it,
\* the name the identification returns for it
DataUrlOf(f) == Str(<<"d","a","t","a",":">> \o <<f>>)
MaskOf(f) == Str(<<"h","t","t","p",":","/","/","h","/">> \o <<f>> \o <<".","p","n","g">>)
NameOf(f) == IF f = "A" THEN Str(sRice) ELSE Str(sSoup)

\* bodies of the server's answers as the page reads them
IdentifyReplies(f) ==
  { Rejected,
    Completion(Obj(<<"error">>, <<Str(<<"e">>)>>)),
    Completion(Obj(<<"foodName">>, <<Str(<<>>)>>)),
    Completion(Obj(<<"foodName">>, <<NameOf(f)>>)) }
SegmentReplies(f) ==
  { Rejected,
    Completion(Obj(<<"error">>, <<Str(<<"e">>)>>)),
    Completion(Obj(<<>>, <<>>)),
    Completion(Obj(<<"segResult">>, <<Obj(<<"prediction", "maskUrl">>, <<Null, Null>>)>>)),
    Completion(Obj(<<"segResult">>, <<Obj(<<"prediction", "maskUrl">>, <<Null, MaskOf(f)>>)>>)) }
EstimateReplies ==
  { Rejected,
    Completion(Obj(<<"error">>, <<Str(<<"e">>)>>)),
    Completion(Obj(<<"portionEstimate_g">>, <<DecOf(3313, 1)>>)) }
\* pixel buffers the mask image may decode to
PageBuffers ==
  { << <<255, 0, 0, 255>>, <<255, 0, 0, 255>> >>,
    << <<255, 0, 0, 255>>, <<0, 0, 0, 0>> >>,
    << <<0, 0, 0, 0>>, <<0, 0, 0, 0>> >> }

\* handlers is the bag of click handlers that are suspended at an await
CanStart == BagCardinality(handlers) < MaxPending
Started(h) == handlers (+) SetToBag({h})
Finished(h) == handlers (-) SetToBag({h})
Moved(h, at) == Finished(h) (+) SetToBag({[h EXCEPT !.at = at]})
At(h, k, at) == BagIn(h, handlers) /\ h.k = k /\ h.at = at

\* the user picks a file (or clears the choice): fileInput.files[0]
SelectFile(f) ==
  /\ f # fileInput
  /\ fileInput' = f
  /\ UNCHANGED <<currentImageDataUrl, currentFoodName, currentMaskUrl,
                 currentPixelFraction, statusText, infoText, resultText, handlers,
                 clicks, estRequests, identifiedNames, lastSegment, lastSubmitted,
                 varsMask, varsSeg, varsEst, varsAside>>

\* identifyBtn click up to `await fetch` (lines 107-114)
IdentifyClick ==
  /\ clicks < MaxClicks
  /\ clicks' = clicks + 1
  /\ \/ /\ fileInput = "none"
        /\ UNCHANGED <<statusText, handlers, lastSubmitted>>
     \/ /\ fileInput # "none" /\ CanStart
        /\ statusText' = Text("Identifying...", Undefined)
        /\ handlers' = Started([k |-> "identify", at |-> "fetch", file |-> fileInput])
        /\ lastSubmitted' = fileInput
  /\ UNCHANGED <<fileInput, currentImageDataUrl, currentFoodName, currentMaskUrl,
                 currentPixelFraction, infoText, resultText, estRequests,
                 identifiedNames, lastSegment, varsMask, varsSeg, varsEst, varsAside>>

\* the identify response arrives (lines 114-123, 128-130)
IdentifySettled(h, reply) ==
  /\ At(h, "identify", "fetch")
  /\ \/ /\ reply.k = "rejected"
        /\ statusText' = Text("Failed: ", Undefined)
        /\ handlers' = Finished(h)
        /\ UNCHANGED <<currentFoodName, identifiedNames>>
     \/ /\ reply.k = "resolved" /\ Truthy(Get(reply.content, "error"))
        /\ statusText' = Text("Error: ", Get(reply.content, "error"))
        /\ handlers' = Finished(h)
        /\ UNCHANGED <<currentFoodName, identifiedNames>>
     \/ /\ reply.k = "resolved" /\ ~Truthy(Get(reply.content, "error"))
        /\ currentFoodName' = Get(reply.content, "foodName")
        /\ statusText' = Text("Detected: ", Get(reply.content, "foodName"))
        /\ identifiedNames' =
             IF Truthy(Get(reply.content, "foodName"))
             THEN identifiedNames \cup {Get(reply.content, "foodName")}
             ELSE identifiedNames
        /\ handlers' = Moved(h, "read")
  /\ UNCHANGED <<fileInput, currentImageDataUrl, currentMaskUrl,
                 currentPixelFraction, infoText, resultText, clicks, estRequests,
                 lastSegment, lastSubmitted, varsMask, varsSeg, varsEst, varsAside>>

\* readFileAsDataUrl settles in the identify handler (lines 123-130)
IdentifyFileRead(h, loaded) ==
  /\ At(h, "identify", "read")
  /\ \/ /\ loaded
        /\ currentImageDataUrl' = DataUrlOf(h.file)
        /\ infoText' = Text("Image loaded. Now click Segment.", Undefined)
        /\ UNCHANGED statusText
     \/ /\ ~loaded
        /\ statusText' = Text("Failed: ", Undefined)
        /\ UNCHANGED <<currentImageDataUrl, infoText>>
  /\ handlers' = Finished(h)
  /\ UNCHANGED <<fileInput, currentFoodName, currentMaskUrl, currentPixelFraction,
                 resultText, clicks, estRequests, identifiedNames, lastSegment, lastSubmitted,
                 varsMask, varsSeg, varsEst, varsAside>>

\* segmentBtn click up to `await fetch` (lines 133-140)
SegmentClick ==
  /\ clicks < MaxClicks
  /\ clicks' = clicks + 1
  /\ \/ /\ fileInput = "none"
        /\ UNCHANGED <<statusText, handlers, lastSubmitted>>
     \/ /\ fileInput # "none" /\ CanStart
        /\ statusText' = Text("Segmenting (YOLOv8-Seg via Replicate)...", Undefined)
        /\ handlers' = Started([k |-> "segment", at |-> "fetch", file |-> fileInput])
        /\ lastSubmitted' = fileInput
  /\ UNCHANGED <<fileInput, currentImageDataUrl, currentFoodName, currentMaskUrl,
                 currentPixelFraction, infoText, resultText, estRequests,
                 identifiedNames, lastSegment, varsMask, varsSeg, varsEst, varsAside>>

\* line 147: data.segResult && data.segResult.maskUrl
ReturnedMask(data) ==
  IF ~Truthy(Get(data, "segResult")) THEN Get(data, "segResult")
  ELSE Get(Get(data, "segResult"), "maskUrl")

\* the segment response arrives (lines 140-154, 164-167)
SegmentSettled(h, reply) ==
  /\ At(h, "segment", "fetch")
  /\ \/ /\ reply.k = "rejected"
        /\ statusText' = Text("Failed: ", Undefined)
        /\ lastSegment' = "error"
        /\ handlers' = Finished(h)
        /\ UNCHANGED currentMaskUrl
     \/ /\ reply.k = "resolved" /\ Truthy(Get(reply.content, "error"))
        /\ statusText' = Text("Error: ", Get(reply.content, "error"))
        /\ lastSegment' = "error"
        /\ handlers' = Finished(h)
        /\ UNCHANGED currentMaskUrl
     \/ /\ reply.k = "resolved" /\ ~Truthy(Get(reply.content, "error"))
        /\ ~Truthy(ReturnedMask(reply.content))
        /\ statusText' = Text("No mask returned by model. Check REPLICATE_MODEL_VERSION output format.", Undefined)
        /\ lastSegment' = "nomask"
        /\ handlers' = Finished(h)
        /\ UNCHANGED currentMaskUrl
     \/ /\ reply.k = "resolved" /\ ~Truthy(Get(reply.content, "error"))
        /\ Truthy(ReturnedMask(reply.content))
        /\ currentMaskUrl' = ReturnedMask(reply.content)
        /\ lastSegment' = "mask"
        /\ handlers' = Moved(h, "read")
        /\ UNCHANGED statusText
  /\ UNCHANGED <<fileInput, currentImageDataUrl, currentFoodName,
                 currentPixelFraction, infoText, resultText, clicks, estRequests,
                 identifiedNames, lastSubmitted, varsMask, varsSeg, varsEst,
                 varsAside>>

\* readFileAsDataUrl settles in the segment handler (lines 154-167)
SegmentFileRead(h, loaded) ==
  /\ At(h, "segment", "read")
  /\ \/ /\ loaded
        /\ currentImageDataUrl' = DataUrlOf(h.file)
        /\ handlers' = Moved(h, "draw")
        /\ UNCHANGED statusText
     \/ /\ ~loaded
        /\ statusText' = Text("Failed: ", Undefined)
        /\ handlers' = Finished(h)
        /\ UNCHANGED currentImageDataUrl
  /\ UNCHANGED <<fileInput, currentFoodName, currentMaskUrl, currentPixelFraction,
                 infoText, resultText, clicks, estRequests, identifiedNames,
                 lastSegment, lastSubmitted, varsMask, varsSeg, varsEst, varsAside>>

\* img.onload of the segment handler: the image and the mask overlay are drawn
\* (lines 157-162)
SegmentDrawn(h) ==
  /\ At(h, "segment", "draw")
  /\ statusText' = Text("Segmentation done. Click Estimate Portion.", Undefined)
  /\ infoText' = Text("Detected: ",
                      IF Truthy(currentFoodName) THEN currentFoodName ELSE Str(sUnknown))
  /\ handlers' = Finished(h)
  /\ UNCHANGED <<fileInput, currentImageDataUrl, currentFoodName, currentMaskUrl,
                 currentPixelFraction, resultText, clicks, estRequests,
                 identifiedNames, lastSegment, lastSubmitted, varsMask, varsSeg, varsEst, varsAside>>

\* estimateBtn click up to `await computeMaskPixelFraction` (lines 170-174)
EstimateClick ==
  /\ clicks < MaxClicks
  /\ clicks' = clicks + 1
  /\ \/ /\ ~Truthy(currentImageDataUrl) \/ ~Truthy(currentMaskUrl)
        /\ UNCHANGED <<statusText, handlers>>
     \/ /\ Truthy(currentImageDataUrl) /\ Truthy(currentMaskUrl) /\ CanStart
        /\ statusText' = Text("Computing pixel fraction...", Undefined)
        /\ handlers' = Started([k |-> "estimate", at |-> "measure", maskUrl |-> currentMaskUrl])
  /\ UNCHANGED <<fileInput, currentImageDataUrl, currentFoodName, currentMaskUrl,
                 currentPixelFraction, infoText, resultText, estRequests,
                 identifiedNames, lastSegment, lastSubmitted, varsMask, varsSeg, varsEst, varsAside>>

\* lines 178-183: the request body, from the page's variables as they are now
PayloadUnguarded(image, mask, name, f) ==
  [imageBase64 |-> image, maskUrl |-> mask, foodName |-> name, pixelFraction |-> f]
Payload(image, mask, name, f) ==
  [imageBase64 |-> image, maskUrl |-> mask,
   foodName |-> IF Truthy(name) THEN name ELSE Str(sUnknown),
   pixelFraction |-> f]

\* the mask image loads, or fails to; the request is sent (lines 174-188, 195-198)
FractionComputed(h, loaded, d) ==
  /\ At(h, "estimate", "measure")
  /\ \/ /\ loaded
        /\ currentPixelFraction' = computeMaskPixelFraction(d)
        /\ statusText' = Text("Mask fraction: ", computeMaskPixelFraction(d))
        /\ estRequests' = Append(estRequests,
             Payload(currentImageDataUrl, currentMaskUrl, currentFoodName,
                     computeMaskPixelFraction(d)))
        /\ handlers' = Moved(h, "fetch")
     \/ /\ ~loaded
        /\ statusText' = Text("Error computing fraction: ", Undefined)
        /\ handlers' = Finished(h)
        /\ UNCHANGED <<currentPixelFraction, estRequests>>
  /\ UNCHANGED <<fileInput, currentImageDataUrl, currentFoodName, currentMaskUrl,
                 infoText, resultText, clicks, identifiedNames, lastSegment, lastSubmitted,
                 varsMask, varsSeg, varsEst, varsAside>>

\* the estimate-portion response arrives (lines 184-198)
EstimateSettled(h, reply) ==
  /\ At(h, "estimate", "fetch")
  /\ \/ /\ reply.k = "rejected"
        /\ statusText' = Text("Error computing fraction: ", Undefined)
        /\ UNCHANGED resultText
     \/ /\ reply.k = "resolved" /\ Truthy(Get(reply.content, "error"))
        /\ resultText' = Text("Error: ", Get(reply.content, "error"))
        /\ UNCHANGED statusText
     \/ /\ reply.k = "resolved" /\ ~Truthy(Get(reply.content, "error"))
        /\ resultText' = Text("", reply.content)
        /\ UNCHANGED statusText
  /\ handlers' = Finished(h)
  /\ UNCHANGED <<fileInput, currentImageDataUrl, currentFoodName, currentMaskUrl,
                 currentPixelFraction, infoText, clicks, estRequests,
                 identifiedNames, lastSegment, lastSubmitted, varsMask, varsSeg, varsEst, varsAside>>

PageNext ==
  \/ \E f \in Files \cup {"none"} : SelectFile(f)
  \/ IdentifyClick
  \/ \E h \in BagToSet(handlers) :
       /\ At(h, "identify", "fetch")
       /\ \E reply \in IdentifyReplies(h.file) : IdentifySettled(h, reply)
  \/ \E h \in BagToSet(handlers), loaded \in BOOLEAN : IdentifyFileRead(h, loaded)
  \/ SegmentClick
  \/ \E h \in BagToSet(handlers) :
       /\ At(h, "segment", "fetch")
       /\ \E reply \in SegmentReplies(h.file) : SegmentSettled(h, reply)
  \/ \E h \in BagToSet(handlers), loaded \in BOOLEAN : SegmentFileRead(h, loaded)
  \/ \E h \in BagToSet(handlers) : SegmentDrawn(h)
  \/ EstimateClick
  \/ \E h \in BagToSet(handlers), loaded \in BOOLEAN, d \in PageBuffers :
       FractionComputed(h, loaded, d)
  \/ \E h \in BagToSet(handlers), reply \in EstimateReplies : EstimateSettled(h, reply)
PageSpec == Init /\ [][PageNext]_vars

\* ------------------------------------------------------------------
\* The pixel fraction of a mask, measured and sent to estimate-portion
\* ------------------------------------------------------------------
\* colours whose sum is 0, 10, 11 and 255, each with alpha 0, 10, 11 and 255
PixelSamples ==
  { c \o <<a>> : c \in { <<0, 0, 0>>, <<3, 3, 4>>, <<3, 4, 4>>, <<255, 0, 0>> },
                 a \in {0, 10, 11, 255} }
Buffers == SeqsUpTo(PixelSamples, MaxPixels) \ {<<>>}

\* img.onload of computeMaskPixelFraction runs on a decoded mask (lines 79-100)
Measure(buf) ==
  /\ mtPc = "idle"
  /\ pixels' = buf
  /\ measuredFraction' = computeMaskPixelFraction(buf)
  /\ mtPc' = "measured"
  /\ UNCHANGED <<varsMask, varsSeg, varsEst, varsPage, varsHelper, varsParser>>

\* the page sends the measured fraction (lines 178-188) and the server handles
\* the request
SubmitMeasured ==
  /\ mtPc = "measured"
  /\ EstimatePortion(Payload(DataUrlOf("A"), MaskOf("A"), NameOf("A"), measuredFraction))

MeterNext ==
  \/ \E buf \in Buffers : Measure(buf)
  \/ SubmitMeasured
  \/ \E o \in {Rejected, Completion(Undefined), Completion(Str(<<"0", ".", "9">>))} :
       DensitySettled(o)
MeterSpec == Init /\ [][MeterNext]_vars

\* ------------------------------------------------------------------
\* The density reply parsed on its own (server.js lines 262-265)
\* ------------------------------------------------------------------
sDensityIsAbout == <<"T","h","e"," ","d","e","n","s","i","t","y"," ","i","s"," ","a","b","o","u","t"," ","0",".","9","5"," ","g","/","m","l",".">>
sCannotEstimate == <<"I"," ","c","a","n","n","o","t"," ","e","s","t","i","m","a","t","e"," ","t","h","i","s",".">>
ParserReplies ==
  { Completion(Undefined), Completion(Str(sDensityIsAbout)), Completion(Str(sCannotEstimate)) }
  \cup { Completion(Str(r)) : r \in SeqsUpTo({"0", "5", "9", ".", "x"}, MaxReplyLen) }

\* the completion resolves and its content is parsed
DensityReplied(outcome) ==
  /\ dPc = "idle"
  /\ densityReply' = outcome.content
  /\ densityResult' = getDensityEstimateFromOpenAI(outcome)
  /\ dPc' = "done"
  /\ UNCHANGED <<varsMask, varsSeg, varsEst, varsPage, varsMeter, varsHelper>>

ParserNext == \E outcome \in ParserReplies : DensityReplied(outcome)
ParserSpec == Init /\ [][ParserNext]_vars

\* ------------------------------------------------------------------
\* estimatePortionFromMaskFraction (utils/portion.js)
\* ------------------------------------------------------------------
\* x * y on numbers of either sign; NaN when an operand is not a number
Mul(x, y) ==
  IF x.t # "num" \/ y.t # "num" THEN NaN
  ELSE [Times(x, y) EXCEPT !.neg = (x.neg # y.neg) /\ Times(x, y).d # <<>>]

\* lines 4-15; opts defaults to {} when it is not passed
estimatePortionFromMaskFraction(pixelFraction, opts) ==
  LET o == IF opts = Undefined THEN Obj(<<>>, <<>>) ELSE opts
      diameter == IF Truthy(Get(o, "plateDiameterCm"))
                  THEN Get(o, "plateDiameterCm") ELSE DecOf(25, 0)
      height == IF Truthy(Get(o, "heightCm")) THEN Get(o, "heightCm") ELSE DecOf(25, 1)
      r == Mul(diameter, DecOf(5, 1))
      area == Mul(MathPI, Mul(r, r))
  IN Return([plateAreaCm2 |-> area,
             estimatedVolumeMl |-> Mul(Mul(pixelFraction, area), height)])

HelperOptions ==
  {Undefined}
  \cup { Obj(<<"plateDiameterCm", "heightCm", "assumedHeightCm">>, <<dia, h, ah>>) :
           dia \in {Undefined, DecOf(20, 0)},
           h \in {Undefined, DecOf(3, 0)},
           ah \in {Undefined, DecOf(4, 0)} }

\* the helper is called
EstimatePortionFromMaskFraction(f, o) ==
  /\ hPc = "idle"
  /\ hPixelFraction' = f
  /\ hOpts' = o
  /\ hResult' = estimatePortionFromMaskFraction(f, o)
  /\ hPc' = "returned"
  /\ UNCHANGED <<hGrams, varsMask, varsSeg, varsEst, varsPage, varsMeter, varsParser>>

\* line 13: the returned rawGramsForDensity is called
RawGramsForDensity(density) ==
  /\ hPc = "returned" /\ ~hResult.threw
  /\ hGrams' = Mul(hResult.v.estimatedVolumeMl, density)
  /\ hPc' = "done"
  /\ UNCHANGED <<hPixelFraction, hOpts, hResult, varsMask, varsSeg, varsEst,
                 varsPage, varsMeter, varsParser>>

HelperNext ==
  \/ \E f \in FractionNumbers \cup {NaN, Undefined}, o \in HelperOptions :
       EstimatePortionFromMaskFraction(f, o)
  \/ \E density \in { DecOf(9, 1), DecOf(1, 0), DecOf(125, 2) } :
       RawGramsForDensity(density)
HelperSpec == Init /\ [][HelperNext]_vars

\* ------------------------------------------------------------------
\* Properties of the segmentation invoker
\* ------------------------------------------------------------------
SegAnswered == sPc = "done" /\ Len(segResponses) = 1
SegAnswer == segResponses[1]
IsErrorAnswer(r) == DOMAIN r.json = {"error"}
\* the route answered with the error of a request that did not go through
TransportFailed == IsErrorAnswer(SegAnswer) /\ SegAnswer.json.error.msg = "Request failed"
\* every poll of this invocation came back pending: the loop ran to its cap
PolledToTheCap ==
  /\ sPc = "done" /\ Truthy(predictionUrl) /\ polls = MaxTries /\ tries = MaxTries
  /\ CanRead(prediction) /\ IsPending(Get(prediction, "status"))

\* C1: when the service gave a poll location and every poll answered
\* 'starting' or 'processing', runModelVersion ends with a timeout error once
\* the cap of 60 polls is reached, and the segment operation answers with an
\* error instead of a result.
C1_CapReachedIsTimeoutError ==
  PolledToTheCap => (SegAnswered /\ IsErrorAnswer(SegAnswer))

\* C2: one invocation of runModelVersion sends at most 60 poll requests, sends
\* none after the first observed status outside {'starting','processing'},
\* sends none at all when the creation response carries no poll location, and
\* always terminates when each request settles.
C2_PollsBoundedAndTerminates ==
  /\ [](polls <= MaxTries /\ (~Truthy(predictionUrl) => polls = 0))
  /\ [][polls' # polls => (polls' = polls + 1 /\ ~seenTerminal)]_vars
  /\ ((sPc \in {"create", "sleep", "poll"}) ~> (sPc = "done"))
C2_Witness == sPc = "done" /\ polls = MaxTries /\ seenTerminal

\* C3: whenever the last observed prediction status is 'failed', from the
\* creation response or from a poll, runModelVersion throws an error carrying
\* the prediction and returns no result; the segment operation answers with an
\* error payload and no segResult.
C3_FailedIsError ==
  (sPc = "done" /\ CanRead(prediction) /\ Get(prediction, "status") = Str(sFailed))
  => /\ SegAnswered
     /\ IsErrorAnswer(SegAnswer)
     /\ SegAnswer.json.error = Error("Replicate prediction failed: ", prediction)
C3_Witness ==
  /\ sPc = "done" /\ polls > 0 /\ CanRead(prediction)
  /\ Get(prediction, "status") = Str(sFailed)

\* C4: when the segmentation call completes without a transport error and
\* without a 'failed' status and the mask locator finds no mask, the segment
\* operation answers with the success payload
\* { segResult: { prediction, maskUrl: null } } and no error field: the null
\* mask is not replaced by a default value.
C4_NullMaskIsSuccess ==
  ( /\ SegAnswered /\ ~TransportFailed
    /\ CanRead(prediction) /\ Get(prediction, "status") # Str(sFailed)
    /\ findMaskUrl(Get(prediction, "output")) = Null )
  => SegAnswer = Response(200, [segResult |-> [prediction |-> prediction, maskUrl |-> Null]])
C4_Witness ==
  /\ SegAnswered /\ CanRead(prediction)
  /\ Get(prediction, "status") = Str(sSucceeded)
  /\ Get(prediction, "output") = Arr(<<Str(sHttpTxt)>>)
  /\ DOMAIN SegAnswer.json = {"segResult"}
  /\ SegAnswer.json.segResult.maskUrl = Null

\* ------------------------------------------------------------------
\* Properties of the estimate-portion operation
\* ------------------------------------------------------------------
EstAnswered == ePc = "done" /\ Len(estResponses) = 1
EstAnswer == estResponses[1]
IsMissingOrEmpty(v) == v = Undefined \/ v = Null \/ v = Str(<<>>)
\* the request as the claim describes an unacceptable one
UnacceptableFraction(v) ==
  \/ v.t # "num"
  \/ LessEq(v, DecOf(0, 0))
  \/ Greater(v, DecOf(1, 0))
Unacceptable(b) ==
  \/ IsMissingOrEmpty(b.imageBase64)
  \/ IsMissingOrEmpty(b.maskUrl)
  \/ IsMissingOrEmpty(b.foodName)
  \/ UnacceptableFraction(b.pixelFraction)
ResultFields ==
  {"foodName", "pixelFraction", "plateAssumptions", "estimatedVolumeMl",
   "density_g_per_ml", "portionEstimate_g"}
PlateFields == {"plateDiameterCm", "assumedHeightCm", "plateAreaCm2"}
IsFullResult(r) ==
  /\ DOMAIN r.json = ResultFields
  /\ DOMAIN r.json.plateAssumptions = PlateFields
  /\ \A k \in {"pixelFraction", "estimatedVolumeMl", "density_g_per_ml", "portionEstimate_g"} :
       r.json[k].t = "num"
  /\ \A k \in PlateFields : r.json.plateAssumptions[k].t = "num"
EstSucceeded == EstAnswered /\ IsFullResult(EstAnswer)

C6_ResponseShapes ==
  /\ Len(estResponses) <= 1
  /\ (ePc = "done" <=> Len(estResponses) = 1)
  /\ \A i \in 1..Len(estResponses) :
       /\ IsErrorAnswer(estResponses[i]) \/ IsFullResult(estResponses[i])
       /\ ~("error" \in DOMAIN estResponses[i].json /\ IsFullResult(estResponses[i]))
C6_Witness == EstSucceeded /\ EstAnswer.status = 200

\* C7: the density estimator never fails outward: whatever the outcome of the
\* density service call, a transport failure or an empty reply included,
\* getDensityEstimateFromOpenAI returns a number, so a request with valid
\* fields never ends in an error because of the density step.
C7_DensityNeverFailsOutward ==
  (ePc = "done" /\ ~Unacceptable(body)) => EstSucceeded

\* C8: for every accepted pixelFraction in (0,1] and density > 0 the grams
\* value before display rounding is pixelFraction x pi x (25/2)^2 x 2.5 x
\* density, computed from the unrounded volume and the unrounded density
\* (rounding touches only the returned fields), and it is strictly increasing
\* in pixelFraction and in density.
GramsFormula(f, density) ==
  Times(Times(Times(Times(f, MathPI), DecOf(15625, 2)), DecOf(25, 1)), density)
SampleDensities == { ParseDensity(r) : r \in Replies }
C8_GramsFormulaAndMonotone ==
  (EstSucceeded /\ Greater(density_g_per_ml, DecOf(0, 0)))
  => /\ SameNumber(rawPortionGrams, GramsFormula(body.pixelFraction, density_g_per_ml))
     /\ SameNumber(EstAnswer.json.portionEstimate_g,
                   ToFixed(GramsFormula(body.pixelFraction, density_g_per_ml), 1))
     /\ \A f2 \in FractionNumbers :
          (Greater(f2, body.pixelFraction) /\ LessEq(f2, DecOf(1, 0)))
          => Greater(RawGrams(Volume(f2), density_g_per_ml), rawPortionGrams)
     /\ \A d2 \in SampleDensities :
          Greater(d2, density_g_per_ml)
          => Greater(RawGrams(estimatedVolumeMl, d2), rawPortionGrams)
C8_Witness ==
  /\ EstSucceeded
  /\ SameNumber(body.pixelFraction, DecOf(25, 2))
  /\ SameNumber(density_g_per_ml, DecOf(99, 1))
  /\ ~SameNumber(rawPortionGrams, RawGramsFromRounded(estimatedVolumeMl, density_g_per_ml))

\* the end-to-end scenario: rice, pixelFraction 0.30, density 0.9
RiceScenario ==
  /\ EstSucceeded
  /\ body.foodName = Str(sRice)
  /\ SameNumber(body.pixelFraction, DecOf(30, 2))
  /\ SameNumber(density_g_per_ml, DecOf(9, 1))

\* C9 as stated: for foodName 'rice', pixelFraction 0.30, density 0.9 and the
\* default plate, estimatePortion returns plateAreaCm2 = 490.87,
\* estimatedVolumeMl = 147.26 and portionEstimate_g = 132.5.
C9_AsStated ==
  RiceScenario
  => /\ SameNumber(EstAnswer.json.plateAssumptions.plateAreaCm2, DecOf(49087, 2))
     /\ SameNumber(EstAnswer.json.estimatedVolumeMl, DecOf(14726, 2))
     /\ SameNumber(EstAnswer.json.portionEstimate_g, DecOf(1325, 1))

\* C9 amended: for foodName 'rice', pixelFraction 0.30, density 0.9 and the
\* default plate (diameter 25 cm, height 2.5 cm), estimatePortion returns
\* plateAreaCm2 = 490.87, estimatedVolumeMl = 368.16 and
\* portionEstimate_g = 331.3.
C9_RiceScenario ==
  RiceScenario
  => /\ SameNumber(EstAnswer.json.plateAssumptions.plateAreaCm2, DecOf(49087, 2))
     /\ SameNumber(EstAnswer.json.estimatedVolumeMl, DecOf(36816, 2))
     /\ SameNumber(EstAnswer.json.portionEstimate_g, DecOf(3313, 1))
     /\ EstAnswer.json.foodName = Str(sRice)
C9_Witness == RiceScenario /\ EstAnswer.status = 200

\* ------------------------------------------------------------------
\* Properties of the mask locator
\* ------------------------------------------------------------------
EndsWith(s, p) == Len(s) >= Len(p) /\ SubSeq(s, Len(s) - Len(p) + 1, Len(s)) = p
\* the acceptance rule as the claim words it
Acceptable(s) ==
  /\ (StartsWith(s, cHttp) \/ StartsWith(s, cData))
  /\ \/ StartsWith(s, cData)
     \/ \E e \in ImageExts : EndsWith(SplitFirst(s, "?"), <<".">> \o e)

\* C10: the mask locator returns only a string found in its input that begins
\* with 'http' or 'data:' and either begins with 'data:' or has a
\* query-stripped text ending in the extension png, jpg, jpeg or webp; it
\* returns null when no string anywhere in the structure satisfies the rule;
\* on a finite structure it terminates.
C10_LocatorReturnsAcceptableOrNull ==
  /\ [](mPc = "done" =>
         /\ \/ maskUrl = Null
            \/ /\ maskUrl.t = "str"
               /\ maskUrl.s \in StringsIn(out)
               /\ Acceptable(maskUrl.s)
         /\ (\A s \in StringsIn(out) : ~Acceptable(s)) => maskUrl = Null)
  /\ ((mPc = "ready") ~> (mPc = "done"))
C10_Witness ==
  /\ mPc = "done" /\ out.t = "obj" /\ maskUrl = Str(sData)
  /\ Str(sBarePng) \in { out.vs[i] : i \in 1..Len(out.vs) }

\* the traversal the claim describes: at a mapping the five keys in their
\* fixed order, then the other keys as inserted; at a sequence the elements in
\* order; the strings met, in the order they are met
ClaimedOrder == <<"mask", "masks", "segmentation", "segmented_image", "overlay">>
IsPriority(k) == \E i \in 1..Len(ClaimedOrder) : ClaimedOrder[i] = k
RECURSIVE Visit(_)
RECURSIVE VisitSeq(_)
RECURSIVE VisitClaimed(_, _)
RECURSIVE VisitOthers(_, _)
VisitSeq(xs) == IF xs = <<>> THEN <<>> ELSE Visit(Head(xs)) \o VisitSeq(Tail(xs))
VisitClaimed(o, ks) ==
  IF ks = <<>> THEN <<>> ELSE Visit(Get(o, Head(ks))) \o VisitClaimed(o, Tail(ks))
VisitOthers(o, i) ==
  IF i > Len(o.ks) THEN <<>>
  ELSE (IF IsPriority(o.ks[i]) THEN <<>> ELSE Visit(o.vs[i])) \o VisitOthers(o, i + 1)
Visit(o) ==
  CASE o.t = "str" -> <<o.s>>
    [] o.t = "arr" -> VisitSeq(o.xs)
    [] o.t = "obj" -> VisitClaimed(o, ClaimedOrder) \o VisitOthers(o, 1)
    [] OTHER -> <<>>
FirstAcceptable(ss) ==
  IF \E i \in 1..Len(ss) : Acceptable(ss[i])
  THEN Str(ss[CHOOSE i \in 1..Len(ss) :
                Acceptable(ss[i]) /\ \A j \in 1..(i - 1) : ~Acceptable(ss[j])])
  ELSE Null

\* the same structure with its mappings' keys inserted in another order, the
\* keys outside the five keeping their order among themselves
KeyOrders(ks) ==
  { p \in [1..Len(ks) -> 1..Len(ks)] :
      /\ IsInjective(p)
      /\ \A i, j \in 1..Len(ks) :
           (i < j /\ ~IsPriority(ks[p[i]]) /\ ~IsPriority(ks[p[j]])) => p[i] < p[j] }
RECURSIVE Reorderings(_)
ReorderingsOfSeq(xs) ==
  { ys \in [1..Len(xs) -> UNION { Reorderings(xs[i]) : i \in 1..Len(xs) }] :
      \A i \in 1..Len(xs) : ys[i] \in Reorderings(xs[i]) }
Reorderings(o) ==
  CASE o.t = "arr" -> { Arr(ys) : ys \in ReorderingsOfSeq(o.xs) }
    [] o.t = "obj" ->
         { Obj([i \in 1..Len(o.ks) |-> o.ks[p[i]]], [i \in 1..Len(o.ks) |-> ys[p[i]]]) :
             p \in KeyOrders(o.ks), ys \in ReorderingsOfSeq(o.vs) }
    [] OTHER -> {o}

\* C11: at every mapping the locator searches mask, masks, segmentation,
\* segmented_image, overlay in that order, each one fully, before any other
\* key, takes sequence elements in their order, and returns the first
\* acceptable string of that traversal; the order in which the five keys were
\* inserted into a mapping does not change the string returned.
C11_PriorityOrderDecides ==
  mPc = "done" =>
    /\ maskUrl = FirstAcceptable(Visit(out))
    /\ \A o2 \in Reorderings(out) : findMaskUrl(o2) = maskUrl
C11_Witness ==
  /\ mPc = "done"
  /\ out = Obj(<<"overlay", "mask">>, <<Str(sData), Str(sHttpPng)>>)
  /\ maskUrl = Str(sHttpPng)

\* C12 as stated: given { segmentation: { mask: "a.png" }, overlay: "b.png" }
\* the locator returns "a.png".
C12_AsStated ==
  (mPc = "done" /\ out = MaskBesideOverlay(sBarePng, sBareBPng))
  => maskUrl = Str(sBarePng)

\* C12 amended: given { segmentation: { mask: "http://h/a.png" },
\* overlay: "http://h/b.png" } the locator returns "http://h/a.png"; with the
\* strings "a.png" and "b.png", which carry no scheme, it returns null.
C12_MaskUnderSegmentationWins ==
  /\ (mPc = "done" /\ out = MaskBesideOverlay(sHttpPng, sHttpBPng))
     => maskUrl = Str(sHttpPng)
  /\ (mPc = "done" /\ out = MaskBesideOverlay(sBarePng, sBareBPng))
     => maskUrl = Null
C12_Witness ==
  /\ mPc = "done"
  /\ out = MaskBesideOverlay(sHttpPng, sHttpBPng)
  /\ maskUrl = Str(sHttpPng)

\* ------------------------------------------------------------------
\* What the segmentation invoker hands to the locator
\* ------------------------------------------------------------------
\* the route answered with a segResult
SegSucceeded == SegAnswered /\ DOMAIN SegAnswer.json = {"segResult"}
HoldsAcceptable(o) == \E s \in StringsIn(o) : Acceptable(s)

\* C13 as stated: on a successful segmentation the whole terminal prediction
\* is searched: when it holds an acceptable string anywhere, not only under
\* output, the returned maskUrl is not null.
C13_AsStated ==
  (SegSucceeded /\ HoldsAcceptable(prediction))
  => SegAnswer.json.segResult.maskUrl # Null

\* C13 amended: on a successful segmentation the output field of the terminal
\* prediction is searched: when prediction.output holds an acceptable string
\* anywhere in it, the returned maskUrl is not null, and a returned maskUrl is
\* always a string of prediction.output.
C13_OutputIsSearched ==
  SegSucceeded =>
    /\ SegAnswer.json.segResult.prediction = prediction
    /\ HoldsAcceptable(Get(prediction, "output"))
       => SegAnswer.json.segResult.maskUrl # Null
    /\ SegAnswer.json.segResult.maskUrl # Null
       => SegAnswer.json.segResult.maskUrl.s \in StringsIn(Get(prediction, "output"))
C13_Witness ==
  /\ SegSucceeded /\ polls > 0
  /\ Get(prediction, "output") = Arr(<<Str(sBarePng), Str(sData)>>)
  /\ SegAnswer.json.segResult.maskUrl = Str(sData)

\* ------------------------------------------------------------------
\* Properties of the page
\* ------------------------------------------------------------------
EstimateRunning == \E h \in BagToSet(handlers) : h.k = "estimate"

\* C14: in every sequence of Identify, Segment and Estimate clicks, an
\* estimatePortion request is sent only after an identification has succeeded
\* with a non-empty food name, and the foodName it carries is that identified
\* name.
C14_EstimateOnlyAfterIdentified ==
  \A n \in 1..Len(estRequests) :
    /\ identifiedNames # {}
    /\ estRequests[n].foodName \in identifiedNames

\* C15: a Segment that ends with a null mask or an error halts the pipeline:
\* no estimatePortion request is sent until a later Segment has returned a
\* non-null mask; and an Estimate click with no image or no mask stored starts
\* nothing and sends no request.
C15_FailedSegmentHaltsPipeline ==
  /\ [][Len(estRequests') > Len(estRequests) => lastSegment = "mask"]_vars
  /\ []((EstimateRunning \/ estRequests # <<>>)
        => (Truthy(currentImageDataUrl) /\ Truthy(currentMaskUrl)))

\* the request r carries the data URL, the mask and the name of the file f
FromFile(r, f) ==
  /\ r.imageBase64 = DataUrlOf(f)
  /\ r.maskUrl = MaskOf(f)
  /\ r.foodName = NameOf(f)

\* C21: in every interleaving of file selections, Identify, Segment and
\* Estimate clicks and the arrival of their responses, the image data, the
\* mask URL and the food name sent together in one estimatePortion request all
\* derive from the same selected image, the one most recently submitted
\* (lastSubmitted records the file of the latest Identify or Segment request).
C21_RequestFromLatestImage ==
  [][Len(estRequests') > Len(estRequests)
     => /\ lastSubmitted \in Files
        /\ FromFile(estRequests'[Len(estRequests')], lastSubmitted)]_vars

\* ------------------------------------------------------------------
\* Teardown of a segment request
\* ------------------------------------------------------------------
\* C16: when the client of a segment request disconnects while the poll loop
\* is running, the loop observes it: no poll request is issued after the
\* teardown.
C16_NoPollAfterTeardown ==
  [][~connected => polls' = polls]_vars

\* ------------------------------------------------------------------
\* Properties of the pixel fraction
\* ------------------------------------------------------------------
\* a food pixel as the claim words it
IsFood(px) == px[4] > 10 \/ (px[4] <= 10 /\ px[1] + px[2] + px[3] > 10)
FoodCount == Cardinality({ i \in 1..Len(pixels) : IsFood(pixels[i]) })
AllOpaque == \A i \in 1..Len(pixels) : pixels[i][4] = 255
AllTransparentBlack == \A i \in 1..Len(pixels) : pixels[i] = <<0, 0, 0, 0>>

\* C17: computeMaskPixelFraction counts a pixel as food exactly when its alpha
\* is above 10, or its alpha is at most 10 and red+green+blue is above 10, and
\* returns food pixels / all pixels; on a non-empty buffer the result is in
\* [0,1], is 1 when every alpha is 255 and is 0 when every pixel is
\* transparent black, and that 0 is rejected by estimate-portion.
C17_FractionCountsFoodPixels ==
  mtPc = "measured" =>
    /\ SameNumber(measuredFraction, Quotient(FoodCount, Len(pixels)))
    /\ ~measuredFraction.neg /\ LessEq(measuredFraction, DecOf(1, 0))
    /\ (FoodCount = Len(pixels)) <=> SameNumber(measuredFraction, DecOf(1, 0))
    /\ AllOpaque => SameNumber(measuredFraction, DecOf(1, 0))
    /\ AllTransparentBlack => SameNumber(measuredFraction, DecOf(0, 0))
    /\ (ePc = "done" /\ SameNumber(measuredFraction, DecOf(0, 0)))
       => (EstAnswered /\ IsErrorAnswer(EstAnswer) /\ EstAnswer.status = 400
           /\ densityCalls = 0)
C17_Witness ==
  /\ mtPc = "measured" /\ Len(pixels) = 2 /\ AllTransparentBlack
  /\ EstAnswered /\ IsErrorAnswer(EstAnswer)

\* ------------------------------------------------------------------
\* Properties of the density parser
\* ------------------------------------------------------------------
\* the value of the first integer-or-decimal substring, read left to right
RECURSIVE SkipToDigit(_)
RECURSIVE ReadDigits(_, _, _)
SkipToDigit(s) ==
  IF s = <<>> \/ IsDigit(Head(s)) THEN s ELSE SkipToDigit(Tail(s))
\* <<the number read so far, how many digits were read, the text left>>
ReadDigits(s, n, k) ==
  IF s # <<>> /\ IsDigit(Head(s))
  THEN ReadDigits(Tail(s), 10 * n + DigitVal(Head(s)), k + 1)
  ELSE <<n, k, s>>
FirstNumber(text) ==
  LET whole == ReadDigits(SkipToDigit(text), 0, 0)
      rest == whole[3]
      decimal == Len(rest) >= 2 /\ rest[1] = "." /\ IsDigit(rest[2])
      both == ReadDigits(Tail(rest), whole[1], 0)
  IN IF decimal THEN DecOf(both[1], both[2]) ELSE DecOf(whole[1], 0)
ReplyText == IF densityReply.t = "str" THEN densityReply.s ELSE <<>>
HasDigit(text) == \E i \in 1..Len(text) : IsDigit(text[i])

\* C18: the density parser returns the value of the first integer-or-decimal
\* substring of the reply ("The density is about 0.95 g/ml." gives 0.95) and
\* the default 1.0 when the reply holds no digit ("I cannot estimate this.",
\* an empty reply and an absent reply give 1.0).
C18_FirstNumberOrDefault ==
  dPc = "done" =>
    /\ ~densityResult.threw
    /\ HasDigit(ReplyText) => SameNumber(densityResult.v, FirstNumber(ReplyText))
    /\ ~HasDigit(ReplyText) => SameNumber(densityResult.v, DecOf(1, 0))
    /\ ReplyText = sDensityIsAbout => SameNumber(densityResult.v, DecOf(95, 2))
    /\ ReplyText = sCannotEstimate => SameNumber(densityResult.v, DecOf(1, 0))
C18_Witness ==
  /\ dPc = "done" /\ densityReply = Str(sDensityIsAbout)
  /\ SameNumber(densityResult.v, DecOf(95, 2))

\* ------------------------------------------------------------------
\* Properties of the portion helper
\* ------------------------------------------------------------------
OutsideUnitInterval(v) ==
  v.t = "num" /\ (LessEq(v, DecOf(0, 0)) \/ Greater(v, DecOf(1, 0)))

\* C19: estimatePortionFromMaskFraction fails with an invalid-input error for
\* every pixelFraction <= 0 or > 1 and never returns a volume for such a value.
C19_HelperRejectsOutOfRange ==
  (hPc # "idle" /\ OutsideUnitInterval(hPixelFraction)) => hResult.threw

\* the option the claim names, or the default when the caller did not give it
Option(k, default) ==
  IF Get(hOpts, k) # Undefined THEN Get(hOpts, k) ELSE default
CircleArea(diameter) ==
  Mul(MathPI, Mul(Mul(diameter, DecOf(5, 1)), Mul(diameter, DecOf(5, 1))))

\* C20: estimatePortionFromMaskFraction takes the plate area from
\* plateOptions.plateDiameterCm (25 when absent) and the volume as
\* pixelFraction x plateAreaCm2 x plateOptions.assumedHeightCm (2.5 when
\* absent); without options its unrounded plate area and volume are those of
\* the estimate-portion operation for the same pixelFraction.
C20_HelperUsesPlateOptions ==
  (hPc # "idle" /\ hPixelFraction.t = "num") =>
    /\ ~hResult.threw
    /\ SameNumber(hResult.v.plateAreaCm2,
                  CircleArea(Option("plateDiameterCm", DecOf(25, 0))))
    /\ SameNumber(hResult.v.estimatedVolumeMl,
                  Mul(Mul(hPixelFraction, hResult.v.plateAreaCm2),
                      Option("assumedHeightCm", DecOf(25, 1))))
    /\ (hOpts = Undefined /\ Truthy(FractionOf(hPixelFraction)))
       => /\ SameNumber(hResult.v.plateAreaCm2, PlateArea)
          /\ SameNumber(hResult.v.estimatedVolumeMl, Volume(hPixelFraction))

====
